---- MODULE Spec2Model ----
(***************************************************************************)
(* Alert engine of the Crypto-Bot (src/bot.py): the persisted alert store, *)
(* the user operations add_alert / deactivate_alert (through alert_off)    *)
(* and the background coroutine alerts_checker.                            *)
(*                                                                         *)
(* The bot runs on one asyncio event loop: code between two awaits runs    *)
(* without interruption.  The checker's awaits are asyncio.sleep,          *)
(* get_symbol_price and bot.send_message; pc names the await the checker   *)
(* is suspended in ("sleep", "fetch", "send") or the synchronous section   *)
(* it is running ("eval", "done").  User operations are synchronous        *)
(* load-modify-save sections and run only while the checker is suspended.  *)
(***************************************************************************)
EXTENDS Integers, Sequences, FiniteSets, TLC

\* ---------------------------------------------------------------- bounds
MaxAlerts == 2      \* add_alert calls in a behaviour (also bounds created_at)
MaxFires == 2       \* fires stops counting an alert's firings here (the loop goes on)

\* ---------------------------------------------------------------- values
Users == {7, 42}
Prices == {1, 2, 3}
None == -1          \* Python None as a price
Raise == -2         \* get_symbol_price raised

COIN_IDS == {"BTC", "ETH", "SOL", "USDT"}
FX_PAIRS == {"USDUAH", "EURUAH"}

\* the calls add_alert(user_id, symbol, direction, target) that are made
AlertArgs ==
    {<<7, "BTC", "ABOVE", 2>>, <<42, "btc", "below", 2>>,
     <<42, "ADA", "ABOVE", 2>>, <<7, "BTC", "SIDEWAYS", 2>>}

\* str.upper() on the strings of the model
Upper(s) ==
    CASE s = "btc" -> "BTC"
      [] s = "above" -> "ABOVE"
      [] s = "below" -> "BELOW"
      [] s = "sideways" -> "SIDEWAYS"
      [] s = "usd" -> "USD"
      [] s = "uah" -> "UAH"
      [] s = "abc" -> "ABC"
      [] s = "off" -> "OFF"
      [] s = "menu" -> "MENU"
      [] s = "Help" -> "HELP"
      [] OTHER -> s

\* str.lower() on the strings of the model
Lower(s) ==
    CASE s = "BTC" -> "btc"
      [] s = "ABOVE" -> "above"
      [] s = "BELOW" -> "below"
      [] s = "SIDEWAYS" -> "sideways"
      [] s = "MENU" -> "menu"
      [] s = "Help" -> "help"
      [] OTHER -> s

\* the order sorted() puts the stored symbols in
SymOrder == <<"", "ADA", "BTC", "btc">>

VARIABLES
    store,      \* data/alerts.json: the persisted list of alert records
    disk,       \* what the file is: "list" (JSON holding the list), "read_only"
                \* (the same, but writing it fails) or a BadFiles kind
    now,        \* datetime.utcnow(), advanced by every add_alert
    fsm,        \* FSMContext state of each user's dialog
    reply,      \* the answer the step gave its user ("none": no answer)
    wrote,      \* the last step called save_alerts
    pc,         \* where alerts_checker is
    items,      \* alerts_checker: items
    changed,    \* alerts_checker: changed
    symbols,    \* alerts_checker: symbols
    si,         \* alerts_checker: position of `for sym in symbols`
    prices,     \* alerts_checker: prices
    idx,        \* alerts_checker: position of `for a in items`
    outbox,     \* arguments of the bot.send_message call in flight
    fetchLog,   \* get_symbol_price calls of the current cycle, in order
    snap,       \* what load_alerts returned at the start of the current cycle
    evald,      \* positions of items whose hit was computed this cycle
    sent,       \* bot.send_message calls of the current cycle, with outcome
    fires,      \* per created_at: how many times the alert has fired
    outcome,    \* how the current cycle's body ended
    http        \* the fetch_json call in flight, or the last one made

vars == <<store, disk, now, fsm, reply, wrote, pc, items, changed, symbols, si,
          prices, idx, outbox, fetchLog, snap, evald, sent, fires, outcome, http>>

userVars == <<store, disk, now, fsm>>
localVars == <<items, changed, symbols, si, prices, idx, outbox>>
histVars == <<fetchLog, snap, evald, sent, fires, outcome>>

NoMsg == [to |-> 0, sym |-> "", direction |-> "", target |-> 0, cur |-> None, created_at |-> 0]
EmptyPrices == [s \in {} |-> None]

\* ------------------------------------------------------------ the store
\* the states of data/alerts.json in which it does not hold a JSON list: no
\* file, bytes that are no UTF-8, text that is no JSON, JSON that is no list
\* (an object wrapped around the records), a file the process may not open
BadFiles == {"missing", "undecodable", "garbage", "not_list", "no_access"}

\* load_alerts that takes whatever the file holds for the list
load_alerts_unchecked == store

\* _safe_read_json: default when the file is missing or reading or parsing it
\* raises, else the parsed value (for "not_list": the object around store)
safe_read_json(default) ==
    IF disk \in {"missing", "undecodable", "garbage", "no_access"}
    THEN default
    ELSE store

\* load_alerts: `data if isinstance(data, list) else []`
load_alerts ==
    LET data == safe_read_json(<<>>)
    IN  IF disk \in {"list", "read_only"} THEN data ELSE <<>>

\* save_alerts whose write always succeeds
save_alerts_unfailing(list) == store' = list /\ disk' = "list"

\* save_alerts -> _safe_write_json: the file now holds the list, or
\* write_text raised and the exception was swallowed
save_alerts(list) ==
    IF disk \in {"no_access", "read_only"}
    THEN UNCHANGED <<store, disk>>
    ELSE store' = list /\ disk' = "list"

\* ------------------------------------------------------- user operations
\* the record with symbol and direction stored as they were typed
NewAlert_raw(user_id, symbol, direction, target) ==
    [user_id |-> user_id, symbol |-> symbol, direction |-> direction,
     target |-> target, active |-> TRUE, created_at |-> now + 1]

NewAlert(user_id, symbol, direction, target) ==
    [user_id |-> user_id, symbol |-> Upper(symbol), direction |-> Upper(direction),
     target |-> target, active |-> TRUE, created_at |-> now + 1]

\* add_alert writing a collection of the new record alone
add_alert_replace(user_id, symbol, direction, target) ==
    save_alerts(<<NewAlert(user_id, symbol, direction, target)>>)

add_alert(user_id, symbol, direction, target) ==
    LET loaded == load_alerts
    IN  save_alerts(Append(loaded, NewAlert(user_id, symbol, direction, target)))

AddAlert(user_id, symbol, direction, target) ==
    /\ pc \in {"sleep", "fetch", "send"}
    /\ UNCHANGED http
    /\ now < MaxAlerts
    /\ add_alert(user_id, symbol, direction, target)
    /\ now' = now + 1
    /\ reply' = "added"
    /\ wrote' = TRUE
    /\ UNCHANGED <<fsm, pc>>
    /\ UNCHANGED localVars
    /\ UNCHANGED histVars

\* ------------------------------------------------------ the add dialog
\* the texts users send, each as the words str.split() finds in it
DialogTexts ==
    {<<"BTC", "below", "2">>, <<"usd", "uah", "above", "2,0">>,
     <<"BTC", "above", "0">>, <<"BTC", "above", "-2">>,
     <<"DOGE", "above", "2">>, <<"BTC", "sideways", "2">>,
     <<"BTC", "above", "abc">>, <<"BTC", "above">>,
     <<"usd", "uah", "above", "2", "BTC">>, <<"off", "1">>,
     <<"MENU">>, <<"Help">>, <<>>}

\* str.replace(",", ".") on the words of the model
ReplaceComma(w) == IF w = "2,0" THEN "2.0" ELSE w

\* float(target_s): <<the number>>, or <<>> when float raises ValueError
float(w) ==
    CASE w \in {"2", "2.0"} -> <<2>>
      [] w = "0" -> <<0>>
      [] w = "-2" -> <<-2>>
      [] OTHER -> <<>>

\* parts[0] + parts[1] at line 1227
Joined(a, b) == IF a = "USD" THEN "USDUAH" ELSE "EURUAH"

\* the words of the text after strip().upper().replace(",", ".").split() and
\* the merge of "USD UAH" / "EUR UAH" into one symbol
Parts(text) ==
    LET s == [i \in 1..Len(text) |-> ReplaceComma(Upper(text[i]))]
    IN  IF Len(s) >= 4 /\ s[1] \in {"USD", "EUR"} /\ s[2] = "UAH"
        THEN <<Joined(s[1], s[2])>> \o SubSeq(s, 3, Len(s))
        ELSE s

\* parse_alert_input without the check of the symbol
parse_alert_input_any_symbol(text) ==
    LET parts == Parts(text)
    IN  IF Len(text) = 0 \/ Len(parts) # 3 THEN <<>>
        ELSE IF parts[2] \notin {"ABOVE", "BELOW"} THEN <<>>
        ELSE IF float(parts[3]) = <<>> THEN <<>>
        ELSE <<parts[1], parts[2], float(parts[3])[1]>>

\* parse_alert_input: <<symbol, direction, target>>, or <<>> for None
parse_alert_input(text) ==
    LET parts == Parts(text)
    IN  IF Len(text) = 0 \/ Len(parts) # 3 THEN <<>>
        ELSE IF parts[2] \notin {"ABOVE", "BELOW"} THEN <<>>
        ELSE IF float(parts[3]) = <<>> THEN <<>>
        ELSE IF parts[1] \in COIN_IDS \/ parts[1] \in FX_PAIRS
             THEN <<parts[1], parts[2], float(parts[3])[1]>>
             ELSE <<>>

\* the callback of the "add alert" button
alert_add(user_id) ==
    /\ fsm' = [fsm EXCEPT ![user_id] = "waiting_text"]
    /\ reply' = "enter_alert"
    /\ wrote' = FALSE
    /\ UNCHANGED <<store, disk, now>>

\* the words and buttons alert_input takes for a cancel
CancelWords == {"menu", "cancel"}
MenuTexts == {"menu", "Help"}

\* the message handler, were it to end the dialog on a text that does not parse
alert_input_forgetful(user_id, text) ==
    LET parsed == parse_alert_input(text)
    IN  IF Len(text) = 1 /\ (Lower(text[1]) \in CancelWords \/ text[1] \in MenuTexts)
        THEN /\ fsm' = [fsm EXCEPT ![user_id] = "None"]
             /\ reply' = "canceled"
             /\ wrote' = FALSE
             /\ UNCHANGED <<store, disk, now>>
        ELSE IF Len(parsed) = 0
        THEN /\ fsm' = [fsm EXCEPT ![user_id] = "None"]
             /\ reply' = "wrong_format"
             /\ wrote' = FALSE
             /\ UNCHANGED <<store, disk, now>>
        ELSE /\ now < MaxAlerts
             /\ add_alert(user_id, parsed[1], parsed[2], parsed[3])
             /\ now' = now + 1
             /\ fsm' = [fsm EXCEPT ![user_id] = "None"]
             /\ reply' = "added"
             /\ wrote' = TRUE

\* the message handler of the state AlertState.waiting_text
alert_input(user_id, text) ==
    LET parsed == parse_alert_input(text)
    IN  IF Len(text) = 1 /\ (Lower(text[1]) \in CancelWords \/ text[1] \in MenuTexts)
        THEN /\ fsm' = [fsm EXCEPT ![user_id] = "None"]
             /\ reply' = "canceled"
             /\ wrote' = FALSE
             /\ UNCHANGED <<store, disk, now>>
        ELSE IF Len(parsed) = 0
        THEN /\ reply' = "wrong_format"
             /\ wrote' = FALSE
             /\ UNCHANGED <<store, disk, now, fsm>>
        ELSE /\ now < MaxAlerts
             /\ add_alert(user_id, parsed[1], parsed[2], parsed[3])
             /\ now' = now + 1
             /\ fsm' = [fsm EXCEPT ![user_id] = "None"]
             /\ reply' = "added"
             /\ wrote' = TRUE

\* the handlers run for a user who accepted the disclaimer (require_accept),
\* while the checker is suspended
AlertAdd(user_id) ==
    /\ pc \in {"sleep", "fetch", "send"}
    /\ UNCHANGED http
    /\ alert_add(user_id)
    /\ UNCHANGED pc
    /\ UNCHANGED localVars
    /\ UNCHANGED histVars

AlertInput(user_id, text) ==
    /\ pc \in {"sleep", "fetch", "send"}
    /\ UNCHANGED http
    /\ fsm[user_id] = "waiting_text"
    /\ alert_input(user_id, text)
    /\ UNCHANGED pc
    /\ UNCHANGED localVars
    /\ UNCHANGED histVars

\* the handlers registered before alert_input take their texts in every dialog
\* state: the commands /start and /help and the two language buttons
cmd_start(user_id) ==
    /\ fsm' = [fsm EXCEPT ![user_id] = "None"]
    /\ reply' = "menu"
    /\ wrote' = FALSE
    /\ UNCHANGED <<store, disk, now>>

cmd_help(user_id) ==
    /\ fsm' = [fsm EXCEPT ![user_id] = "None"]
    /\ reply' = "help"
    /\ wrote' = FALSE
    /\ UNCHANGED <<store, disk, now>>

lang_pick(user_id) ==
    /\ fsm' = [fsm EXCEPT ![user_id] = "None"]
    /\ reply' = "language_changed"
    /\ wrote' = FALSE
    /\ UNCHANGED <<store, disk, now>>

CmdStart(user_id) ==
    /\ pc \in {"sleep", "fetch", "send"}
    /\ UNCHANGED http
    /\ cmd_start(user_id)
    /\ UNCHANGED pc
    /\ UNCHANGED localVars
    /\ UNCHANGED histVars

CmdHelp(user_id) ==
    /\ pc \in {"sleep", "fetch", "send"}
    /\ UNCHANGED http
    /\ cmd_help(user_id)
    /\ UNCHANGED pc
    /\ UNCHANGED localVars
    /\ UNCHANGED histVars

LangPick(user_id) ==
    /\ pc \in {"sleep", "fetch", "send"}
    /\ UNCHANGED http
    /\ lang_pick(user_id)
    /\ UNCHANGED pc
    /\ UNCHANGED localVars
    /\ UNCHANGED histVars

list_alerts(user_id) == SelectSeq(load_alerts, LAMBDA a : a.user_id = user_id)

\* the positions of the whole collection, whoever owns the records
UserItems_global(list, user_id) == [i \in 1..Len(list) |-> i]

\* [i for i, a in enumerate(items) if a.user_id == user_id], as 1-based positions
UserItems(list, user_id) ==
    SelectSeq([i \in 1..Len(list) |-> i], LAMBDA i : list[i].user_id = user_id)

\* deactivate_alert's return value; idx is 0-based as in the code
deactivate_found(user_id, i) ==
    ~ (i < 0 \/ i >= Len(UserItems(load_alerts, user_id)))

\* deactivate_alert flipping the flag instead of clearing it
deactivate_alert_toggle(user_id, i) ==
    LET loaded == load_alerts
        user_items == UserItems(loaded, user_id)
    IN  IF i < 0 \/ i >= Len(user_items)
        THEN /\ UNCHANGED <<store, disk>>
             /\ wrote' = FALSE
        ELSE /\ save_alerts([loaded EXCEPT ![user_items[i + 1]].active = ~ @])
             /\ wrote' = TRUE

\* deactivate_alert clearing the flag of every record of the owner
deactivate_alert_all(user_id, i) ==
    LET loaded == load_alerts
        user_items == UserItems(loaded, user_id)
    IN  IF i < 0 \/ i >= Len(user_items)
        THEN /\ UNCHANGED <<store, disk>>
             /\ wrote' = FALSE
        ELSE /\ save_alerts([k \in 1..Len(loaded) |->
                    IF loaded[k].user_id = user_id
                    THEN [loaded[k] EXCEPT !.active = FALSE] ELSE loaded[k]])
             /\ wrote' = TRUE

deactivate_alert(user_id, i) ==
    LET loaded == load_alerts
        user_items == UserItems(loaded, user_id)
    IN  IF i < 0 \/ i >= Len(user_items)
        THEN /\ UNCHANGED <<store, disk>>
             /\ wrote' = FALSE
        ELSE /\ save_alerts([loaded EXCEPT ![user_items[i + 1]].active = FALSE])
             /\ wrote' = TRUE

\* the handler of "off N": N is what \d+ matched
alert_off(user_id, n) ==
    /\ fsm' = [fsm EXCEPT ![user_id] = "None"]
    /\ reply' = IF deactivate_found(user_id, n - 1) THEN "disabled" ELSE "not_found"
    /\ deactivate_alert(user_id, n - 1)

\* alert_off runs while the checker is suspended; a user in the state
\* waiting_text has the message taken by alert_input, registered before it
AlertOff(user_id, n) ==
    /\ pc \in {"sleep", "fetch", "send"}
    /\ UNCHANGED http
    /\ fsm[user_id] # "waiting_text"
    /\ alert_off(user_id, n)
    /\ UNCHANGED <<now, pc>>
    /\ UNCHANGED localVars
    /\ UNCHANGED histVars

\* ------------------------------------------------------- alerts_checker
\* sorted({a.get("symbol") for a in items if a.get("active")})
\* the symbols of all records, inactive ones included
ActiveSymbols_all(list) == {list[i].symbol : i \in 1..Len(list)}

ActiveSymbols(list) == {list[i].symbol : i \in {j \in 1..Len(list) : list[j].active}}

SortedSymbols(list) == SelectSeq(SymOrder, LAMBDA s : s \in ActiveSymbols(list))

\* a record without the key "symbol" has symbol "", which stands for the None
\* a.get("symbol") returns; sorted() raises TypeError on a set that holds
\* None and a string
SortRaises(list) == "" \in ActiveSymbols(list) /\ ActiveSymbols(list) # {""}

\* the target of a record whose "target" is no number: float() raises on it
NotANumber == -99

\* `if not sym: continue`: the next position of symbols, from i on, that is fetched
RECURSIVE NextFetch(_, _)
NextFetch(syms, i) ==
    IF i > Len(syms) THEN i
    ELSE IF syms[i] = "" THEN NextFetch(syms, i + 1)
    ELSE i

\* what `await get_symbol_price(sym)` can do: return a price, return None, raise
get_symbol_price(sym) ==
    IF Upper(sym) \in COIN_IDS \/ Upper(sym) \in {"USDUAH", "EURUAH"}
    THEN Prices \cup {None, Raise}
    ELSE {None}

\* lines 1563-1566: prices after `try: prices[sym] = <r> except: prices[sym] = None`
\* a raise that drops the prices fetched so far
PutPrice_clear(p, sym, r) ==
    IF r = Raise THEN [s \in {sym} |-> None]
    ELSE [s \in DOMAIN p \cup {sym} |-> IF s = sym THEN r ELSE p[s]]

PutPrice(p, sym, r) ==
    [s \in DOMAIN p \cup {sym} |->
        IF s = sym THEN (IF r = Raise THEN None ELSE r) ELSE p[s]]

\* prices.get(sym)
PricesGet(p, sym) == IF sym \in DOMAIN p THEN p[sym] ELSE None

\* lines 1570-1571 and 1577-1578: the two `continue`s of the loop over items
\* the loop without its `if cur is None: continue`
skipped_inactive_only(a, cur) == ~ a.active

\* the loop without its `if not a.get("active"): continue`
skipped_unpriced_only(a, cur) == cur = None

skipped(a, cur) == ~ a.active \/ cur = None

\* hit with the boundary left out
hit_strict(direction, cur, target) ==
    \/ direction = "ABOVE" /\ cur > target
    \/ direction = "BELOW" /\ cur < target

hit(direction, cur, target) ==
    \/ direction = "ABOVE" /\ cur >= target
    \/ direction = "BELOW" /\ cur <= target

\* a notification that reports the target as the current price
Message_target(a, cur) ==
    [to |-> a.user_id, sym |-> Upper(a.symbol), direction |-> Lower(Upper(a.direction)),
     target |-> a.target, cur |-> a.target, created_at |-> a.created_at]

\* the text of the notification: owner, symbol, direction.lower(), target, cur
Message(a, cur) ==
    [to |-> a.user_id, sym |-> Upper(a.symbol), direction |-> Lower(Upper(a.direction)),
     target |-> a.target, cur |-> cur, created_at |-> a.created_at]

\* a cycle start that remembers the alerts fired by earlier cycles and takes
\* them for inactive whatever the store says
CycleStart_cached ==
    /\ pc = "sleep"
    /\ UNCHANGED http
    /\ items' = [i \in 1..Len(load_alerts) |->
                   IF fires[load_alerts[i].created_at] > 0
                   THEN [load_alerts[i] EXCEPT !.active = FALSE]
                   ELSE load_alerts[i]]
    /\ changed' = FALSE
    /\ symbols' = SortedSymbols(items')
    /\ prices' = EmptyPrices
    /\ si' = NextFetch(symbols', 1)
    /\ idx' = 1
    /\ pc' = IF si' > Len(symbols') THEN "eval" ELSE "fetch"
    /\ snap' = load_alerts
    /\ fetchLog' = <<>>
    /\ evald' = {}
    /\ sent' = <<>>
    /\ outcome' = "running"
    /\ wrote' = FALSE
    /\ UNCHANGED <<outbox, fires>>
    /\ reply' = "none"
    /\ UNCHANGED userVars

\* lines 1556-1559, up to the first await of the cycle, or to the `except` of
\* line 1596 when sorted() raises
CycleStart ==
    /\ pc = "sleep"
    /\ UNCHANGED http
    /\ items' = load_alerts
    /\ changed' = FALSE
    /\ symbols' = IF SortRaises(load_alerts) THEN <<>> ELSE SortedSymbols(load_alerts)
    /\ prices' = EmptyPrices
    /\ si' = NextFetch(symbols', 1)
    /\ idx' = 1
    /\ pc' = IF SortRaises(load_alerts) THEN "done"
             ELSE IF si' > Len(symbols') THEN "eval" ELSE "fetch"
    /\ snap' = load_alerts
    /\ fetchLog' = <<>>
    /\ evald' = {}
    /\ sent' = <<>>
    /\ outcome' = IF SortRaises(load_alerts) THEN "raised" ELSE "running"
    /\ wrote' = FALSE
    /\ UNCHANGED <<outbox, fires>>
    /\ reply' = "none"
    /\ UNCHANGED userVars

\* lines 1560-1567: one get_symbol_price call returns or raises
Fetch(r) ==
    /\ pc = "fetch"
    /\ UNCHANGED http
    /\ r \in get_symbol_price(symbols[si])
    /\ prices' = PutPrice(prices, symbols[si], r)
    /\ fetchLog' = Append(fetchLog, symbols[si])
    /\ si' = NextFetch(symbols, si + 1)
    /\ pc' = IF si' > Len(symbols) THEN "eval" ELSE "fetch"
    /\ idx' = 1
    /\ wrote' = FALSE
    /\ UNCHANGED <<items, changed, symbols, outbox, snap, evald, sent, fires, outcome>>
    /\ reply' = "none"
    /\ UNCHANGED userVars

\* lines 1569-1582: one iteration of `for a in items`, up to the send_message
\* await, or to the `except` of line 1596 when float(a.get("target")) raises
Eval ==
    /\ pc = "eval"
    /\ UNCHANGED http
    /\ idx <= Len(items)
    /\ wrote' = FALSE
    /\ LET a == items[idx]
           sym == Upper(a.symbol)
           direction == Upper(a.direction)
           cur == PricesGet(prices, sym)
       IN  IF a.active /\ a.target = NotANumber
           THEN /\ pc' = "done"
                /\ outcome' = "raised"
                /\ UNCHANGED <<idx, items, changed, outbox, evald, fires>>
           ELSE IF skipped(a, cur)
           THEN /\ idx' = idx + 1
                /\ UNCHANGED <<pc, items, changed, outbox, evald, fires, outcome>>
           ELSE /\ evald' = evald \cup {idx}
                /\ UNCHANGED outcome
                /\ IF hit(direction, cur, a.target)
                   THEN /\ items' = [items EXCEPT ![idx].active = FALSE]
                        /\ changed' = TRUE
                        /\ outbox' = Message(a, cur)
                        /\ fires' = [fires EXCEPT ![a.created_at] = IF @ < MaxFires THEN @ + 1 ELSE @]
                        /\ pc' = "send"
                        /\ UNCHANGED idx
                   ELSE /\ idx' = idx + 1
                        /\ UNCHANGED <<pc, items, changed, outbox, fires>>
    /\ UNCHANGED <<symbols, si, prices, fetchLog, snap, sent>>
    /\ reply' = "none"
    /\ UNCHANGED userVars

\* a send whose exception is not caught: the task ends with it
Send_uncaught(ok) ==
    /\ pc = "send"
    /\ UNCHANGED http
    /\ sent' = Append(sent, [msg |-> outbox, ok |-> ok])
    /\ IF ok
       THEN /\ pc' = "eval"
            /\ idx' = idx + 1
            /\ UNCHANGED outcome
       ELSE /\ pc' = "exited"
            /\ outcome' = "raised"
            /\ UNCHANGED idx
    /\ wrote' = FALSE
    /\ UNCHANGED <<items, changed, symbols, si, prices, outbox, fetchLog, snap, evald, fires>>
    /\ reply' = "none"
    /\ UNCHANGED userVars

\* lines 1584-1592: bot.send_message returns (ok) or raises; a raise leaves the
\* try block through `except Exception: pass` (lines 1596-1597)
Send(ok) ==
    /\ pc = "send"
    /\ UNCHANGED http
    /\ sent' = Append(sent, [msg |-> outbox, ok |-> ok])
    /\ IF ok
       THEN /\ pc' = "eval"
            /\ idx' = idx + 1
            /\ UNCHANGED outcome
       ELSE /\ pc' = "done"
            /\ outcome' = "raised"
            /\ UNCHANGED idx
    /\ wrote' = FALSE
    /\ UNCHANGED <<items, changed, symbols, si, prices, outbox, fetchLog, snap, evald, fires>>
    /\ reply' = "none"
    /\ UNCHANGED userVars

\* a write-back that reads the store again and clears only the fired alerts
WriteBack_merge ==
    /\ pc = "eval"
    /\ UNCHANGED http
    /\ idx > Len(items)
    /\ IF changed
       THEN /\ save_alerts([i \in 1..Len(store) |->
                   IF i <= Len(items) /\ ~ items[i].active
                   THEN [store[i] EXCEPT !.active = FALSE] ELSE store[i]])
            /\ wrote' = TRUE
       ELSE /\ UNCHANGED <<store, disk>>
            /\ wrote' = FALSE
    /\ pc' = "done"
    /\ outcome' = "completed"
    /\ reply' = "none"
    /\ UNCHANGED <<now, fsm>>
    /\ UNCHANGED localVars
    /\ UNCHANGED <<fetchLog, snap, evald, sent, fires>>

\* a write-back that does not wait for the end of the loop over items
WriteBack_early ==
    /\ pc = "eval"
    /\ UNCHANGED http
    /\ idx <= Len(items) + 1
    /\ IF changed
       THEN /\ save_alerts(items)
            /\ wrote' = TRUE
       ELSE /\ UNCHANGED <<store, disk>>
            /\ wrote' = FALSE
    /\ pc' = "done"
    /\ outcome' = "completed"
    /\ reply' = "none"
    /\ UNCHANGED <<now, fsm>>
    /\ UNCHANGED localVars
    /\ UNCHANGED <<fetchLog, snap, evald, sent, fires>>

\* lines 1594-1595: the loop over items is over
WriteBack ==
    /\ pc = "eval"
    /\ UNCHANGED http
    /\ idx > Len(items)
    /\ IF changed
       THEN /\ save_alerts(items)
            /\ wrote' = TRUE
       ELSE /\ UNCHANGED <<store, disk>>
            /\ wrote' = FALSE
    /\ pc' = "done"
    /\ outcome' = "completed"
    /\ reply' = "none"
    /\ UNCHANGED <<now, fsm>>
    /\ UNCHANGED localVars
    /\ UNCHANGED <<fetchLog, snap, evald, sent, fires>>

\* line 1599: the cycle body is left and asyncio.sleep(10) is awaited.  The
\* locals are dead from here on (lines 1556-1559 and the two `for` targets
\* assign each of them before the next cycle reads it) and are cleared.
CycleEnd ==
    /\ pc = "done"
    /\ UNCHANGED http
    /\ pc' = "sleep"
    /\ fetchLog' = <<>>
    /\ snap' = <<>>
    /\ evald' = {}
    /\ sent' = <<>>
    /\ outcome' = "none"
    /\ wrote' = FALSE
    /\ items' = <<>>
    /\ changed' = FALSE
    /\ symbols' = <<>>
    /\ si' = 1
    /\ prices' = EmptyPrices
    /\ idx' = 1
    /\ outbox' = NoMsg
    /\ UNCHANGED fires
    /\ reply' = "none"
    /\ UNCHANGED userVars

\* the file is deleted, overwritten or hand-edited into something that is no
\* JSON list, while no code of the bot is running
Corrupt(kind) ==
    /\ pc \in {"sleep", "fetch", "send"}
    /\ UNCHANGED http
    /\ kind \in BadFiles
    /\ disk' = kind
    /\ reply' = "none"
    /\ wrote' = FALSE
    /\ UNCHANGED <<store, now, fsm, pc>>
    /\ UNCHANGED localVars
    /\ UNCHANGED histVars

\* ------------------------------------------------------------ fetch_json
\* the callers of fetch_json: the URL and the timeout (seconds) they pass
HttpCalls ==
    {<<"COINGECKO_SIMPLE_PRICE", 18>>, <<"COINGECKO_MARKETS", 18>>,
     <<"NBU_EXCHANGE", 18>>, <<"COINGECKO_TICKERS", 22>>}

\* what one session.get attempt can end in: a response with a status and a
\* JSON body (the data it holds; None for a body that is no JSON), no
\* response within the timeout, a connection error
Responses ==
    {[kind |-> "response", status |-> 200, body |-> p] : p \in Prices}
    \cup {[kind |-> "response", status |-> st, body |-> None] : st \in {200, 404, 429, 500}}
    \cup {[kind |-> k, status |-> 0, body |-> None] : k \in {"timeout", "conn_error"}}

\* the backoffs of lines 271 and 277, in tenths of a second
Backoff429 == 18
BackoffTimeout == 7

\* range(2)
Attempts == 2

HttpIdle ==
    [pc |-> "idle", url |-> "", timeout |-> 0, attempt |-> 0, seen |-> <<>>,
     slept |-> <<>>, result |-> None]

\* a caller awaits fetch_json(session, url, params, timeout)
HttpCall(call) ==
    /\ http.pc \in {"idle", "returned", "raised"}
    /\ http' = [pc |-> "get", url |-> call[1], timeout |-> call[2], attempt |-> 0,
                seen |-> <<>>, slept |-> <<>>, result |-> None]
    /\ UNCHANGED <<store, disk, now, fsm, reply, wrote, pc>>
    /\ UNCHANGED localVars
    /\ UNCHANGED histVars

\* an attempt that sleeps and retries on every 429 and every timeout
HttpAttempt_retry_always(resp) ==
    /\ http.pc = "get"
    /\ http' =
          IF resp.status = 429
          THEN [http EXCEPT !.pc = "backoff", !.seen = Append(@, resp),
                            !.slept = Append(@, Backoff429)]
          ELSE IF resp.kind = "timeout"
          THEN [http EXCEPT !.pc = "backoff", !.seen = Append(@, resp),
                            !.slept = Append(@, BackoffTimeout)]
          ELSE IF resp.kind = "response" /\ resp.status = 200 /\ resp.body # None
          THEN [http EXCEPT !.pc = "returned", !.seen = Append(@, resp),
                            !.result = resp.body]
          ELSE [http EXCEPT !.pc = "raised", !.seen = Append(@, resp)]
    /\ UNCHANGED <<store, disk, now, fsm, reply, wrote, pc>>
    /\ UNCHANGED localVars
    /\ UNCHANGED histVars

\* lines 267-278: one pass of the body of `for attempt in range(2)`, from
\* session.get to the sleep, the return or the exception that leaves it
HttpAttempt(resp) ==
    /\ http.pc = "get"
    /\ http' =
          IF resp.kind = "timeout"
          THEN IF http.attempt = 0
               THEN [http EXCEPT !.pc = "backoff", !.seen = Append(@, resp),
                                 !.slept = Append(@, BackoffTimeout)]
               ELSE [http EXCEPT !.pc = "raised", !.seen = Append(@, resp)]
          ELSE IF resp.kind = "conn_error"
          THEN [http EXCEPT !.pc = "raised", !.seen = Append(@, resp)]
          ELSE IF resp.status = 429 /\ http.attempt = 0
          THEN [http EXCEPT !.pc = "backoff", !.seen = Append(@, resp),
                            !.slept = Append(@, Backoff429)]
          ELSE IF resp.status >= 400
          THEN [http EXCEPT !.pc = "raised", !.seen = Append(@, resp)]
          ELSE IF resp.body = None
          THEN [http EXCEPT !.pc = "raised", !.seen = Append(@, resp)]
          ELSE [http EXCEPT !.pc = "returned", !.seen = Append(@, resp),
                            !.result = resp.body]
    /\ UNCHANGED <<store, disk, now, fsm, reply, wrote, pc>>
    /\ UNCHANGED localVars
    /\ UNCHANGED histVars

\* the sleep is over and `continue` takes the next attempt of range(2); a
\* loop that runs out of attempts falls off the function, which returns None
HttpContinue ==
    /\ http.pc = "backoff"
    /\ http' = IF http.attempt + 1 < Attempts
               THEN [http EXCEPT !.pc = "get", !.attempt = @ + 1]
               ELSE [http EXCEPT !.pc = "returned", !.attempt = @ + 1]
    /\ UNCHANGED <<store, disk, now, fsm, reply, wrote, pc>>
    /\ UNCHANGED localVars
    /\ UNCHANGED histVars

\* the file is edited from outside the bot: a record loses its symbol, or
\* gets a target that is no number
EditRecord(i, field) ==
    /\ pc \in {"sleep", "fetch", "send"}
    /\ UNCHANGED http
    /\ disk = "list"
    /\ i \in 1..Len(store)
    /\ store' = IF field = "symbol"
                THEN [store EXCEPT ![i].symbol = ""]
                ELSE [store EXCEPT ![i].target = NotANumber]
    /\ store' # store
    /\ reply' = "none"
    /\ wrote' = FALSE
    /\ UNCHANGED <<disk, now, fsm, pc>>
    /\ UNCHANGED localVars
    /\ UNCHANGED histVars

\* the file can no longer be written (permissions, a full disk), or can again
WriteProtect ==
    /\ pc \in {"sleep", "fetch", "send"}
    /\ UNCHANGED http
    /\ disk = "list"
    /\ disk' = "read_only"
    /\ reply' = "none"
    /\ wrote' = FALSE
    /\ UNCHANGED <<store, now, fsm, pc>>
    /\ UNCHANGED localVars
    /\ UNCHANGED histVars

WriteAllow ==
    /\ pc \in {"sleep", "fetch", "send"}
    /\ UNCHANGED http
    /\ disk = "read_only"
    /\ disk' = "list"
    /\ reply' = "none"
    /\ wrote' = FALSE
    /\ UNCHANGED <<store, now, fsm, pc>>
    /\ UNCHANGED localVars
    /\ UNCHANGED histVars

\* ------------------------------------------------------- specification
Init ==
    /\ store = <<>>
    /\ disk = "list"
    /\ now = 0
    /\ fsm = [u \in Users |-> "None"]
    /\ reply = "none"
    /\ wrote = FALSE
    /\ pc = "sleep"
    /\ items = <<>>
    /\ changed = FALSE
    /\ symbols = <<>>
    /\ si = 1
    /\ prices = EmptyPrices
    /\ idx = 1
    /\ outbox = NoMsg
    /\ fetchLog = <<>>
    /\ snap = <<>>
    /\ evald = {}
    /\ sent = <<>>
    /\ fires = [c \in 1..MaxAlerts |-> 0]
    /\ outcome = "none"
    /\ http = HttpIdle

Next ==
    \/ \E x \in AlertArgs : AddAlert(x[1], x[2], x[3], x[4])
    \/ \E u \in Users, n \in 0..(MaxAlerts + 1) : AlertOff(u, n)
    \/ CycleStart
    \/ \E r \in Prices \cup {None, Raise} : Fetch(r)
    \/ Eval
    \/ \E ok \in BOOLEAN : Send(ok)
    \/ WriteBack
    \/ CycleEnd

Spec == Init /\ [][Next]_vars

\* the steps of the alerts_checker task
Checker ==
    \/ CycleStart
    \/ \E r \in Prices \cup {None, Raise} : Fetch(r)
    \/ Eval
    \/ \E ok \in BOOLEAN : Send(ok)
    \/ WriteBack
    \/ CycleEnd

\* the bot with a store file that can go bad
NextIO ==
    \/ Next
    \/ \E kind \in BadFiles : Corrupt(kind)

SpecIO == Init /\ [][NextIO]_vars

\* the users' side of the bot: the add dialog and "off N"
NextDialog ==
    \/ \E u \in Users : AlertAdd(u)
    \/ \E u \in Users, text \in DialogTexts : AlertInput(u, text)
    \/ \E u \in Users, n \in 0..(MaxAlerts + 1) : AlertOff(u, n)
    \/ \E u \in Users : CmdStart(u)
    \/ \E u \in Users : CmdHelp(u)
    \/ \E u \in Users : LangPick(u)

SpecDialog == Init /\ [][NextDialog]_vars

\* the event loop resumes the task whenever its sleep, fetch or send is over
FairIO == SpecIO /\ WF_vars(Checker)

\* the bot with a store file that is edited from outside
NextEdit ==
    \/ Next
    \/ \E i \in 1..MaxAlerts, field \in {"symbol", "target"} : EditRecord(i, field)

SpecEdit == Init /\ [][NextEdit]_vars

\* the bot while no owner deactivates an alert and every fetch of a supported
\* symbol returns the price 2, which meets ABOVE 2 and BELOW 2 (a symbol that
\* is not supported has no price)
CheckerFiring ==
    \/ CycleStart
    \/ \E r \in {2, None} : Fetch(r) /\ (r = None <=> get_symbol_price(symbols[si]) = {None})
    \/ Eval
    \/ \E ok \in BOOLEAN : Send(ok)
    \/ WriteBack
    \/ CycleEnd

NextFiring ==
    \/ \E x \in AlertArgs : AddAlert(x[1], x[2], x[3], x[4])
    \/ CheckerFiring

FairFiring == Init /\ [][NextFiring]_vars /\ WF_vars(CheckerFiring)

\* fetch_json and its callers
NextFetchJson ==
    \/ \E call \in HttpCalls : HttpCall(call)
    \/ \E resp \in Responses : HttpAttempt(resp)
    \/ HttpContinue

SpecFetchJson == Init /\ [][NextFetchJson]_vars

\* session.get ends within its timeout and asyncio.sleep within its delay
FairFetchJson ==
    /\ SpecFetchJson
    /\ WF_vars(\E resp \in Responses : HttpAttempt(resp))
    /\ WF_vars(HttpContinue)

\* the bot with a store file whose writes can fail
NextWrite ==
    \/ Next
    \/ WriteProtect
    \/ WriteAllow

SpecWrite == Init /\ [][NextWrite]_vars

FairWrite == SpecWrite /\ WF_vars(Checker)

TypeOK ==
    /\ pc \in {"sleep", "fetch", "eval", "send", "done"}
    /\ Len(store) <= MaxAlerts

\* =============================================================== claims
\* the stored record created at c, in a list
RecordOf(list, c) == {i \in 1..Len(list) : list[i].created_at = c}

\* C1: an active alert evaluated against a fetched price p fires iff
\* (direction = ABOVE and p >= target) or (direction = BELOW and p <= target);
\* p = target fires in both directions and no other direction fires.
C1_FiresIffCondition ==
    [][(pc = "eval" /\ idx <= Len(items) /\ items[idx].active
            /\ PricesGet(prices, items[idx].symbol) # None)
        => LET a == items[idx]
               p == prices[a.symbol]
               fired == pc' = "send" /\ ~ items'[idx].active /\ changed'
           IN  /\ fired <=> \/ a.direction = "ABOVE" /\ p >= a.target
                            \/ a.direction = "BELOW" /\ p <= a.target
               /\ p = a.target /\ a.direction \in {"ABOVE", "BELOW"} => fired
               /\ a.direction \notin {"ABOVE", "BELOW"} => ~ fired]_vars

\* a cycle that evaluated a SIDEWAYS alert without firing it and then fired an
\* alert whose target equals the fetched price
C1_Witness ==
    /\ pc = "send"
    /\ outbox.cur = outbox.target
    /\ \E i \in evald : items[i].direction = "SIDEWAYS" /\ items[i].active

\* C2 (as claimed): whatever the prices and the outcome of the deliveries, every
\* alert fires at most once over its lifetime.
C2_FiresAtMostOnce == \A c \in DOMAIN fires : fires[c] <= 1

\* C3 (as claimed): under any interleaving of cycles, add_alert and
\* deactivate_alert, a stored record's active flag never goes from false to true.
C3_NeverReactivated ==
    [][\A i \in 1..Len(store) : \A j \in RecordOf(store', store[i].created_at) :
          ~ store[i].active => ~ store'[j].active]_vars

\* C3 (amended): a stored record's active flag goes from false to true only in
\* the write-back of a cycle, and only for a record that was active at that
\* cycle's read (its owner deactivated it between the read and the write);
\* add_alert and deactivate_alert never re-activate a record and a cycle never
\* re-activates a record that was inactive at its read.
C3_ReactivatedOnlyByStaleWriteBack ==
    [][\A i \in 1..Len(store) : \A j \in RecordOf(store', store[i].created_at) :
          (~ store[i].active /\ store'[j].active)
          => /\ pc = "eval" /\ pc' = "done" /\ wrote' /\ changed
             /\ \E k \in RecordOf(snap, store[i].created_at) : snap[k].active]_vars

\* a cycle has written the collection back and a record that was inactive at
\* its read is inactive in the store
C3_Witness ==
    /\ pc = "done"
    /\ wrote
    /\ \E i \in 1..Len(snap) : \E j \in RecordOf(store, snap[i].created_at) :
          ~ snap[i].active /\ ~ store[j].active

\* C4: deactivate(owner, k), k 1-based: k < 1 or k > the owner's record count
\* answers not-found and does not write; otherwise it clears active on exactly
\* the record list_alerts(owner) shows at position k.
C4_DeactivateKthOfOwner ==
    [][reply' \in {"disabled", "not_found"}
        => \A u \in Users :
              LET mine == list_alerts(u)
                  n == Len(mine)
              IN  \A k \in 0..(MaxAlerts + 1) :
                     alert_off(u, k)
                     => IF k < 1 \/ k > n
                        THEN reply' = "not_found" /\ ~ wrote' /\ store' = store
                        ELSE /\ reply' = "disabled"
                             /\ wrote'
                             /\ \E j \in RecordOf(store, mine[k].created_at) :
                                   store' = [store EXCEPT ![j].active = FALSE]]_vars

\* owner 7's first alert is the second record of the collection, and `off 1`
\* of owner 7 has just deactivated it while the first record stays active
C4_Witness ==
    /\ reply = "disabled"
    /\ wrote
    /\ Len(store) = 2
    /\ store[1].user_id = 42 /\ store[1].active
    /\ store[2].user_id = 7 /\ ~ store[2].active
    /\ fires[2] = 0

\* C5: a successful deactivate changes only the active flag of the one targeted
\* record: all other records, the other fields of the targeted record and the
\* length and order of the collection stay.
C5_DeactivateFrame ==
    [][\A u \in Users, k \in 0..(MaxAlerts + 1) :
          (reply' = "disabled" /\ alert_off(u, k))
          => /\ Len(store') = Len(store)
             /\ \A j \in 1..Len(store) :
                   [store'[j] EXCEPT !.active = store[j].active] = store[j]
             /\ Cardinality({j \in 1..Len(store) : store'[j] # store[j]}) <= 1
             /\ \A j \in 1..Len(store) :
                   store'[j] # store[j] => store[j].user_id = u /\ ~ store'[j].active
             /\ UNCHANGED <<now, items, prices, fires>>]_vars

\* owner 7 holds two alerts and only the first of them has been deactivated
C5_Witness ==
    /\ reply = "disabled"
    /\ Len(store) = 2
    /\ store[1].user_id = 7 /\ store[2].user_id = 7
    /\ ~ store[1].active /\ store[2].active
    /\ fires[1] = 0

\* the send_message calls of the current cycle made for the alert created at c
SentFor(c) == {n \in 1..Len(sent) : sent[n].msg.created_at = c}

\* C6: an active alert evaluated against the price p fetched for its symbol in
\* this cycle stays active without a notification if the condition fails; if it
\* holds the alert becomes inactive and exactly one notification is sent, to
\* the alert's owner, with its symbol, direction, target and the price p.
C6_EvaluateOutcome ==
    [][/\ (pc = "eval" /\ idx <= Len(items) /\ items[idx].active
              /\ PricesGet(prices, items[idx].symbol) # None)
          => LET a == items[idx]
                 p == prices[a.symbol]
             IN  /\ \E n \in 1..Len(fetchLog) : fetchLog[n] = a.symbol
                 /\ SentFor(a.created_at) = {}
                 /\ IF (a.direction = "ABOVE" /\ p >= a.target)
                       \/ (a.direction = "BELOW" /\ p <= a.target)
                    THEN /\ ~ items'[idx].active
                         /\ pc' = "send"
                         /\ outbox' = [to |-> a.user_id, sym |-> a.symbol,
                                       direction |-> Lower(a.direction),
                                       target |-> a.target, cur |-> p,
                                       created_at |-> a.created_at]
                    ELSE /\ items' = items
                         /\ pc' = "eval"
                         /\ idx' = idx + 1
                 /\ sent' = sent
       /\ pc = "send"
          => \/ UNCHANGED <<pc, sent, idx, items, outbox>>
             \/ /\ Len(sent') = Len(sent) + 1
                /\ sent'[Len(sent')].msg = outbox
                /\ \A n \in 1..Len(sent) : sent'[n] = sent[n]
                /\ pc' = "eval" => idx' = idx + 1 /\ ~ items'[idx].active
       /\ \A c \in 1..MaxAlerts : Cardinality(SentFor(c)) <= 1]_vars

\* in one cycle an alert was evaluated and stays active without a
\* notification, and an ABOVE alert has fired at a price above its target and
\* its one notification has been sent
C6_Witness ==
    /\ pc = "eval"
    /\ Len(sent) = 1
    /\ sent[1].msg.direction = "above"
    /\ sent[1].msg.cur > sent[1].msg.target
    /\ sent[1].ok
    /\ \E i \in evald : items[i].active /\ SentFor(items[i].created_at) = {}

\* the elements of a sequence
Range(seq) == {seq[n] : n \in 1..Len(seq)}

\* C7: the price fetches of a cycle are the distinct symbols of the alerts that
\* are active at the cycle's read, each fetched exactly once; a symbol of
\* inactive alerts only is not fetched.
C7_FetchesAreDistinctActiveSymbols ==
    LET wanted == {snap[i].symbol : i \in {j \in 1..Len(snap) : snap[j].active}}
    IN  /\ Cardinality(Range(fetchLog)) = Len(fetchLog)
        /\ Range(fetchLog) \subseteq wanted
        /\ pc \in {"eval", "send", "done"} => Range(fetchLog) = wanted
        /\ pc = "fetch" => symbols[si] \in wanted \ Range(fetchLog)

\* two active alerts sharing one symbol were read and the fetch phase is over
\* after a single fetch
C7_Witness ==
    /\ pc = "eval"
    /\ Len(snap) = 2
    /\ snap[1].active /\ snap[2].active
    /\ snap[1].symbol = snap[2].symbol
    /\ fetchLog = <<snap[1].symbol>>

\* the positions of the current cycle's read that were active and got no price
Unpriced == {i \in 1..Len(snap) : snap[i].active /\ PricesGet(prices, snap[i].symbol) = None}

\* C8: when no price is obtained for a symbol in a cycle, the active alerts on
\* it stay active, are not evaluated and are not notified in that cycle, and
\* the next cycle asks for the price of every still active alert again.
C8_NoPriceNoEvaluation ==
    [][/\ (pc = "eval" /\ idx <= Len(items) /\ items[idx].active
              /\ PricesGet(prices, items[idx].symbol) = None)
          => /\ items' = items /\ sent' = sent /\ fires' = fires /\ store' = store
             /\ pc' = "eval" /\ idx' = idx + 1
             /\ idx \notin evald'
       /\ pc \in {"eval", "send", "done"}
          => \A i \in Unpriced :
                /\ items[i].active
                /\ i \notin evald
                /\ SentFor(snap[i].created_at) = {}
       /\ (pc = "eval" /\ pc' = "done" /\ wrote')
          => \A i \in Unpriced : store'[i] = snap[i]
       /\ (pc = "sleep" /\ pc' # "sleep")
          => /\ prices' = EmptyPrices
             /\ \A i \in 1..Len(store) :
                   store[i].active => store[i].symbol \in Range(symbols')
             /\ pc' = "fetch" <=> symbols' # <<>>]_vars

\* a cycle has ended whose fetch for BTC gave no price while a BTC alert whose
\* condition any price would meet was active: it is still active in the store
C8_Witness ==
    /\ pc = "done"
    /\ outcome = "completed"
    /\ \E i \in Unpriced :
          /\ snap[i].symbol = "BTC"
          /\ i <= Len(store) /\ store[i] = snap[i]
    /\ \E i \in Unpriced : snap[i].symbol = "ADA"

\* C9: a failed fetch for one symbol leaves the other symbols of the cycle
\* alone: the remaining symbols are still fetched, prices already fetched are
\* kept, and an active alert whose symbol has a price is evaluated and fires
\* iff its condition holds.
C9_FetchFailureIsLocal ==
    [][/\ pc = "fetch"
          => \/ UNCHANGED <<pc, si, prices, fetchLog>>
             \/ /\ fetchLog' = Append(fetchLog, symbols[si])
                /\ DOMAIN prices' = DOMAIN prices \cup {symbols[si]}
                /\ \A s \in DOMAIN prices : prices'[s] = prices[s]
                /\ si' = si + 1
                /\ pc' = IF si < Len(symbols) THEN "fetch" ELSE "eval"
       /\ (pc = "eval" /\ idx <= Len(items) /\ items[idx].active
              /\ PricesGet(prices, items[idx].symbol) # None
              /\ \E s \in DOMAIN prices : prices[s] = None)
          => LET a == items[idx]
                 p == prices[a.symbol]
             IN  /\ idx \in evald'
                 /\ pc' = "send" <=> \/ a.direction = "ABOVE" /\ p >= a.target
                                     \/ a.direction = "BELOW" /\ p <= a.target]_vars

\* the fetch for ADA gave no price, BTC was fetched after it, and an alert on
\* BTC has fired in the same cycle
C9_Witness ==
    /\ pc = "send"
    /\ fetchLog = <<"ADA", "BTC">>
    /\ prices["ADA"] = None
    /\ outbox.sym = "BTC"

\* C10 (as claimed): when the notification of a fired alert cannot be
\* delivered, the alert is inactive in the store once the cycle has ended.
C10_FailedDeliveryStillCommitted ==
    pc = "done"
    => \A n \in 1..Len(sent) :
          ~ sent[n].ok
          => \A j \in RecordOf(store, sent[n].msg.created_at) : ~ store[j].active

\* the positions of the current cycle's read that were active and got a price
Priced == {i \in 1..Len(snap) : snap[i].active /\ PricesGet(prices, snap[i].symbol) # None}

\* C11 (as claimed): a failed delivery for one firing alert does not abort the
\* cycle: when the cycle body has ended, every alert that was active at the read
\* and has a price has been evaluated.
C11_FailedDeliveryDoesNotAbort ==
    pc = "done" => \A i \in Priced : i \in evald

\* C14 (as claimed): a cycle writes the store exactly once if at least one alert
\* fired in it and not at all otherwise.
C14_WritesOnceIffFired ==
    pc = "done" => (wrote <=> \E i \in 1..Len(snap) : snap[i].active /\ ~ items[i].active)

\* C15 (as claimed): no notification of a cycle is sent before the cycle has
\* written the collection with the fired alerts marked inactive.
C15_SendAfterWriteBack ==
    (pc = "send" \/ sent # <<>>) => (pc = "done" /\ wrote /\ store = items)

C17_NoRecordRemoved ==
    [][/\ Len(store') >= Len(store)
       /\ \A i \in 1..Len(store) : RecordOf(store', store[i].created_at) # {}]_vars

\* C17 (amended): add_alert and deactivate_alert remove no record and a cycle's
\* write-back keeps every record it read, fired and deactivated ones included;
\* a record leaves the store only when the write-back of a cycle that fired
\* overwrites an add_alert made between that cycle's read and its write.
C17_RemovedOnlyByStaleWriteBack ==
    [][\A i \in 1..Len(store) :
          RecordOf(store', store[i].created_at) = {}
          => /\ pc = "eval" /\ pc' = "done" /\ wrote' /\ changed
             /\ RecordOf(snap, store[i].created_at) = {}]_vars

\* a cycle has written back a collection of two records that are both inactive
\* and both still stored
C17_Witness ==
    /\ pc = "done"
    /\ wrote
    /\ Len(snap) = 2
    /\ Len(store) = 2
    /\ \A i \in 1..2 : ~ store[i].active /\ store[i].created_at = snap[i].created_at

\* C18: add_alert(owner, symbol, direction, target) appends exactly one record
\* at the end, with that owner, the uppercased symbol and direction, that
\* target and active = true; the records before it keep content and order.
C18_AddAppendsOne ==
    [][reply' = "added"
        => \A x \in AlertArgs :
              add_alert(x[1], x[2], x[3], x[4])
              => /\ Len(store') = Len(store) + 1
                 /\ SubSeq(store', 1, Len(store)) = store
                 /\ LET new == store'[Len(store')]
                    IN  /\ new.user_id = x[1]
                        /\ new.symbol = Upper(x[2])
                        /\ new.symbol \in {"BTC", "ADA"}
                        /\ new.direction = Upper(x[3])
                        /\ new.direction \in {"ABOVE", "BELOW", "SIDEWAYS"}
                        /\ new.target = x[4]
                        /\ new.active]_vars

\* add_alert(42, "btc", "below", 2) has just appended BTC BELOW after an
\* inactive record, which is kept
C18_Witness ==
    /\ reply = "added"
    /\ Len(store) = 2
    /\ ~ store[1].active
    /\ store[2] = [user_id |-> 42, symbol |-> "BTC", direction |-> "BELOW",
                   target |-> 2, active |-> TRUE, created_at |-> 2]

\* a cycle is under way and it started from an empty list
EmptyCycle == pc # "sleep" /\ snap = <<>>

\* C13: a store file that is missing, unreadable, unparseable or no list is
\* read as the empty sequence; the cycle that starts from it fetches no
\* price, sends nothing, writes nothing, is not aborted, and the loop reaches
\* its next sleep
C13_BadStoreNoOpCycle ==
    /\ [](disk \in BadFiles => load_alerts = <<>>)
    /\ [][(pc = "sleep" /\ pc' # "sleep" /\ disk \in BadFiles)
           => (items' = <<>> /\ snap' = <<>> /\ symbols' = <<>> /\ pc' = "eval")]_vars
    /\ [](EmptyCycle => /\ pc \in {"eval", "done"}
                        /\ fetchLog = <<>>
                        /\ sent = <<>>
                        /\ outbox = NoMsg
                        /\ ~ wrote
                        /\ outcome # "raised")
    /\ [][EmptyCycle => UNCHANGED <<store, disk>>]_vars
    /\ (EmptyCycle ~> pc = "sleep")

\* a cycle ended that read a bad file whose bytes hold an active alert
C13_Witness ==
    /\ pc = "done"
    /\ outcome = "completed"
    /\ disk \in BadFiles
    /\ snap = <<>>
    /\ Len(store) > 0
    /\ store[1].active
\* C12: no failure inside a cycle ends the loop: a raise is caught at the end
\* of the cycle body, every cycle that was started reaches the sleep, and
\* every sleep is followed by the start of another cycle
C12_LoopNeverExits ==
    /\ [](pc \in {"sleep", "fetch", "eval", "send", "done"})
    /\ [](outcome = "raised" => pc = "done")
    /\ (pc # "sleep" ~> pc = "sleep")
    /\ (pc = "sleep" ~> outcome = "running")

\* a cycle was aborted by a delivery that raised, and a later cycle, which
\* fired the same alert again, ran to its end
C12_Witness ==
    /\ pc = "done"
    /\ outcome = "completed"
    /\ \E c \in 1..MaxAlerts : fires[c] = 2

\* the texts of DialogTexts that name a supported symbol, ABOVE or BELOW and a
\* number, in any letter case and with a decimal comma
WellFormedTexts ==
    {<<"BTC", "below", "2">>, <<"usd", "uah", "above", "2,0">>,
     <<"BTC", "above", "0">>, <<"BTC", "above", "-2">>}

\* C19: a text entered for a new alert that does not parse into a supported
\* symbol, ABOVE or BELOW and a number creates no alert and leaves the alert
\* store as it is; an alert is created only by a text that parses, and it is
\* the alert the text names
C19_UnparseableCreatesNothing ==
    [][/\ reply' \in {"added", "wrong_format", "canceled"}
          => \A u \in Users, text \in DialogTexts :
                (fsm[u] = "waiting_text" /\ AlertInput(u, text))
                => IF text \in WellFormedTexts
                   THEN /\ reply' = "added"
                        /\ Len(store') = Len(store) + 1
                        /\ SubSeq(store', 1, Len(store)) = store
                        /\ store'[Len(store')].user_id = u
                        /\ store'[Len(store')].symbol \in COIN_IDS \cup FX_PAIRS
                        /\ store'[Len(store')].direction = Upper(text[Len(text) - 1])
                   ELSE /\ reply' # "added"
                        /\ store' = store
                        /\ disk' = disk
                        /\ ~ wrote'
       /\ store' # store
          => /\ reply' \in {"added", "disabled"}
             /\ reply' = "added"
                => \E u \in Users, text \in WellFormedTexts : AlertInput(u, text)]_vars

\* a text that does not parse was answered with the format example, by a bot
\* that holds an alert
C19_Witness ==
    /\ reply = "wrong_format"
    /\ store # <<>>
    /\ \E u \in Users : fsm[u] = "waiting_text"

\* C20 (as claimed): every stored alert that came through the add dialog has
\* a target greater than zero
C20_TargetPositive == \A i \in 1..Len(store) : store[i].target > 0


\* C21: a write of the collection that fails raises nothing: add_alert
\* returns and the dialog answers "added", deactivate_alert still reports
\* found for a position the owner has, a checker cycle that fired ends its
\* body normally and reaches its sleep; the file keeps what it held, which
\* is what the next read returns
C21_FailedWriteSwallowed ==
    /\ [][disk = "read_only"
           => /\ disk' = "read_only" => store' = store
              /\ reply' = "added" => (wrote' /\ now' = now + 1 /\ load_alerts' = load_alerts)
              /\ reply' \in {"disabled", "not_found"}
                 => \A u \in Users, k \in 0..(MaxAlerts + 1) :
                       alert_off(u, k)
                       => /\ reply' = "disabled" <=> (k >= 1 /\ k <= Len(list_alerts(u)))
                          /\ reply' = "disabled" => wrote'
                          /\ load_alerts' = load_alerts
              /\ (pc = "eval" /\ pc' = "done")
                 => /\ outcome' = "completed"
                    /\ wrote' <=> changed
                    /\ load_alerts' = load_alerts]_vars
    /\ (pc = "done" ~> pc = "sleep")

\* a cycle fired an alert, its write failed, and the cycle's body ended
\* normally with the file still holding the alert as active
C21_Witness ==
    /\ pc = "done"
    /\ outcome = "completed"
    /\ wrote
    /\ disk = "read_only"
    /\ \E i \in 1..Len(items) : ~ items[i].active /\ store[i].active


\* an attempt that gave no usable answer, and one that was rate-limited or
\* timed out
FailedAttempt(resp) == resp.kind # "response" \/ resp.status >= 400 \/ resp.body = None
TransientFailure(resp) == resp.kind = "timeout" \/ resp.status = 429

\* C22: one fetch_json call makes at most two attempts and ends: a first
\* attempt that is rate-limited or times out is followed by one fixed sleep
\* and exactly one more attempt, nothing else is retried, the failure of the
\* last attempt made (a second 429 or timeout included) reaches the caller as
\* an exception, and a success returns the data
C22_AtMostTwoAttempts ==
    /\ [](Len(http.seen) <= 2 /\ Len(http.slept) <= 1 /\ http.attempt <= 1)
    /\ [](Len(http.seen) >= 1 /\ TransientFailure(http.seen[1])
             => /\ http.slept = <<IF http.seen[1].status = 429 THEN 18 ELSE 7>>
                /\ Len(http.seen) = 1 => http.pc \in {"backoff", "get"}
                /\ Len(http.seen) = 2 => http.pc \in {"returned", "raised"})
    /\ [](Len(http.seen) >= 1 /\ ~ TransientFailure(http.seen[1])
             => Len(http.seen) = 1 /\ http.slept = <<>> /\ http.pc \in {"returned", "raised"})
    /\ [](http.pc \in {"returned", "raised"}
             => LET last == http.seen[Len(http.seen)]
                IN  /\ http.pc = "raised" <=> FailedAttempt(last)
                    /\ http.pc = "returned" => http.result = last.body)
    /\ (http.pc = "get" ~> http.pc \in {"returned", "raised"})

\* a call was rate-limited twice and raised after its second attempt
C22_Witness ==
    /\ http.pc = "raised"
    /\ Len(http.seen) = 2
    /\ http.seen[1].status = 429
    /\ http.seen[2].status = 429


\* C23: a cycle starts from the collection as the store holds it at that
\* moment, with no prices, no fired flag and nothing else kept from earlier
\* cycles; it evaluates and notifies only alerts that were active at that
\* read, and leaves the ones that were inactive at that read as they are
C23_CycleReadsStore ==
    /\ [][(pc = "sleep" /\ pc' # "sleep")
           => /\ items' = store
              /\ Range(symbols') = {store[i].symbol : i \in {j \in 1..Len(store) : store[j].active}}
              /\ prices' = EmptyPrices
              /\ ~ changed'
              /\ evald' = {}
              /\ sent' = <<>>]_vars
    /\ [](pc # "sleep"
             => /\ Len(items) = Len(snap)
                /\ \A i \in 1..Len(snap) :
                      /\ i \in evald => snap[i].active
                      /\ ~ snap[i].active => items[i] = snap[i]
                /\ \A n \in 1..Len(sent) :
                      \E i \in RecordOf(snap, sent[n].msg.created_at) : snap[i].active)

\* a cycle ran to its end over an alert its owner had deactivated before the
\* read: the alert's symbol was priced at its target by another alert's
\* fetch, and the alert was not evaluated
C23_Witness ==
    /\ pc = "done"
    /\ outcome = "completed"
    /\ \E i \in 1..Len(snap) :
          /\ ~ snap[i].active
          /\ fires[snap[i].created_at] = 0
          /\ snap[i].direction = "ABOVE"
          /\ PricesGet(prices, snap[i].symbol) = snap[i].target
          /\ i \notin evald


\* the records of the cycle's read that lack a symbol or a numeric target
Malformed == {i \in 1..Len(snap) : snap[i].symbol = "" \/ snap[i].target = NotANumber}

\* C24 (as claimed): a cycle whose deliveries all succeeded is not aborted,
\* whatever malformed records the store held at its read, and it has
\* evaluated every well-formed active alert whose symbol has a price
C24_MalformedRecordTolerated ==
    (pc = "done" /\ \A n \in 1..Len(sent) : sent[n].ok)
    => /\ outcome = "completed"
       /\ \A i \in Priced \ Malformed : i \in evald


\* the pairs of distinct records of the cycle's read that were active and
\* agree in owner, symbol, direction and target
DuplicatePairs ==
    {p \in (1..Len(snap)) \X (1..Len(snap)) :
        /\ p[1] # p[2]
        /\ snap[p[1]].active /\ snap[p[2]].active
        /\ snap[p[1]].user_id = snap[p[2]].user_id
        /\ snap[p[1]].symbol = snap[p[2]].symbol
        /\ snap[p[1]].direction = snap[p[2]].direction
        /\ snap[p[1]].target = snap[p[2]].target}

\* C25 (as claimed): when a cycle has ended and the price it fetched meets
\* the condition of two active duplicates, each of the two has fired in that
\* cycle and has a notification of its own
C25_DuplicatesEachFire ==
    pc = "done"
    => \A p \in DuplicatePairs :
          LET a == snap[p[1]]
              cur == PricesGet(prices, a.symbol)
          IN  (cur # None /\ ((a.direction = "ABOVE" /\ cur >= a.target)
                              \/ (a.direction = "BELOW" /\ cur <= a.target)))
              => /\ SentFor(snap[p[1]].created_at) # {}
                 /\ SentFor(snap[p[2]].created_at) # {}
                 /\ ~ items[p[1]].active /\ ~ items[p[2]].active


\* C26: the phases of a cycle follow one another: while a fetch is still to
\* be made no alert has been evaluated or notified, every fetch step comes
\* before the first evaluation, the evaluation runs only once every symbol
\* to be fetched has been fetched, and the write-back comes only when the
\* loop has passed over every record of the cycle
C26_PhasesOrdered ==
    /\ [](pc = "fetch" => evald = {} /\ sent = <<>> /\ idx = 1 /\ ~ changed)
    /\ [](pc \in {"eval", "send"} \/ evald # {}
             => /\ si > Len(symbols)
                /\ Range(fetchLog) = Range(symbols) \ {""})
    /\ [][Len(fetchLog') > Len(fetchLog) => (pc = "fetch" /\ evald' = {} /\ sent' = <<>>)]_vars
    /\ [][(pc # "sleep" /\ pc' = "done" /\ wrote')
           => /\ pc = "eval"
              /\ idx > Len(items)
              /\ \A i \in Priced : i \in evald]_vars

\* a cycle fetched two symbols, then evaluated an alert, then wrote back
C26_Witness ==
    /\ pc = "done"
    /\ wrote
    /\ Len(fetchLog) = 2
    /\ evald # {}


\* C27 (as claimed): at the end of a cycle the alerts evaluated in it are
\* exactly those that were active at its read and whose symbol got a price,
\* and every notification of the cycle is for an alert active at that read
C27_EvaluatedAreActivePriced ==
    pc = "done"
    => /\ evald = Priced
       /\ \A n \in 1..Len(sent) :
             \E i \in RecordOf(snap, sent[n].msg.created_at) : snap[i].active /\ i \in evald


\* C28 (as claimed), in the interleaving it names: no send_message call is
\* made for an alert that the store holds as inactive at that moment
C28_NoNotificationOnceDeactivated ==
    [][(pc = "send" /\ Len(sent') > Len(sent))
        => \A i \in RecordOf(store, outbox.created_at) : store[i].active]_vars

\* C28 (amended): a cycle notifies only for alerts that its own read of the
\* store, made at its start, found active; a deactivation made after that
\* read does not stop the cycle from notifying
C28_NotifiesOnlyWhatItReadActive ==
    /\ [][(pc = "sleep" /\ pc' # "sleep") => snap' = store]_vars
    /\ [][(pc = "send" /\ Len(sent') > Len(sent))
           => /\ sent'[Len(sent')].msg = outbox
              /\ \E i \in RecordOf(snap, outbox.created_at) :
                    snap[i].active /\ snap[i].user_id = outbox.to]_vars

\* a notification went out for an alert that its owner deactivated after the
\* cycle's read: the store holds it as inactive and the cycle has not yet
\* written back
C28_Witness ==
    /\ pc = "eval"
    /\ Len(sent) = 1
    /\ sent[1].ok
    /\ \E i \in RecordOf(store, sent[1].msg.created_at) : ~ store[i].active


\* the store holds the alert created at c as an active, well-formed alert on
\* a supported symbol
ActiveSupported(c) ==
    \E i \in RecordOf(store, c) :
        /\ store[i].active
        /\ store[i].symbol \in COIN_IDS \cup FX_PAIRS
        /\ store[i].direction \in {"ABOVE", "BELOW"}

\* C29 (as claimed): while no owner deactivates and every fetched price meets
\* the condition, an active alert on a supported symbol is eventually stored
\* as inactive, with a notification sent for it
C29_EventuallyFires ==
    \A c \in 1..MaxAlerts :
        ActiveSupported(c)
        ~> (\E i \in RecordOf(store, c) : ~ store[i].active /\ fires[c] > 0)


\* the texts alert_input takes for a cancel, as the user types them
CancelTexts == {<<"MENU">>, <<"Help">>}

\* the replies of the handlers registered before alert_input
EarlierHandlerReplies == {"menu", "help", "language_changed"}

\* C30 (as claimed): a user's add dialog leaves the waiting state only when a
\* text parsed into an alert or a cancel word or menu button was sent; every
\* other text leaves the dialog waiting
C30_WaitingLeftOnlyByAlertOrCancel ==
    [][\A u \in Users :
          (fsm[u] = "waiting_text" /\ fsm'[u] # "waiting_text")
          => reply' \in {"added", "canceled"}]_vars

\* C30 (amended): pressing add-alert puts the user's dialog in the waiting
\* state; from that state a text that parses creates exactly one alert and
\* clears the state, a cancel word or menu button clears the state and creates
\* nothing, every other text that reaches alert_input creates nothing and
\* leaves the dialog waiting, so that "off N" is not taken as a deactivation
\* while the dialog waits; the commands /start and /help and the language
\* buttons are taken by earlier handlers, which clear the state and create
\* nothing
C30_DialogStates ==
    [][\A u \in Users :
          /\ (reply' = "enter_alert" /\ AlertAdd(u))
             => (fsm'[u] = "waiting_text" /\ store' = store)
          /\ \A text \in DialogTexts :
                (fsm[u] = "waiting_text" /\ AlertInput(u, text))
                => IF text \in CancelTexts
                   THEN /\ reply' = "canceled"
                        /\ fsm'[u] = "None"
                        /\ store' = store
                   ELSE IF text \in WellFormedTexts
                   THEN /\ reply' = "added"
                        /\ fsm'[u] = "None"
                        /\ Len(store') = Len(store) + 1
                        /\ SubSeq(store', 1, Len(store)) = store
                   ELSE /\ reply' = "wrong_format"
                        /\ fsm'[u] = "waiting_text"
                        /\ store' = store
          /\ \A n \in 0..(MaxAlerts + 1) :
                fsm[u] = "waiting_text" => ~ AlertOff(u, n)
          /\ (fsm[u] = "waiting_text" /\ fsm'[u] # "waiting_text")
             => /\ reply' \in {"added", "canceled"} \cup EarlierHandlerReplies
                /\ reply' \in EarlierHandlerReplies => store' = store
                /\ \A v \in Users \ {u} : fsm'[v] = fsm[v]]_vars

\* one user's dialog was cancelled while the other user's dialog waits, after
\* an alert was created through the dialog
C30_Witness ==
    /\ reply = "canceled"
    /\ Len(store) = 1
    /\ \E u \in Users : fsm[u] = "None" /\ \E v \in Users \ {u} : fsm[v] = "waiting_text"

====
